---- MODULE Spec2Model ----
(***************************************************************************)
(* Voice-order page controller (frontend/src/app/page.tsx): the recording  *)
(* lifecycle, transcript resolution, the cart and order confirmation.      *)
(*                                                                         *)
(* Every handler of the component is an operator from a state record to    *)
(* a state record, composed as the code composes its calls (onresult calls *)
(* stopRecording, which calls processTranscript); an action installs the   *)
(* record a handler returns.  The page runs on one event loop, so a        *)
(* handler runs to its first await (or to its end) in one step, and the    *)
(* continuation after an await is the step of the network response.        *)
(*                                                                         *)
(* Text is a sequence of tokens: " " is white space, "k" is a menu keyword *)
(* of MENU_KEYWORDS, "x" is any other word.  A nullable string is a        *)
(* sequence of at most one text (<<>> is null).                            *)
(***************************************************************************)
EXTENDS Integers, Sequences, FiniteSets, TLC

VARIABLES
  appState,                 \* useState<AppState>
  cart,                     \* useState<OrderItem[]>
  errorMessage,             \* useState<string>
  liveTranscript,           \* useState<string>
  noteMode,                 \* useState<number>
  suggestions,              \* useState<string[]>
  showOrderTypeModal,       \* useState<boolean>
  recognition,              \* the recognizer behind recognitionRef
  sessionNoteMode,          \* noteMode closed over by the recognizer's handlers
  timerRef,                 \* the duration interval behind timerRef is live
  silenceTimerRef,          \* pending silence timeout (with its closure), or <<>>
  noteModeRef,              \* useRef mirror of noteMode
  isProcessingRef,          \* lock of stopRecording
  hasAutoStoppedRef,        \* latch of the automatic triggers
  transcriptRef,            \* latest transcript
  isProcessingTranscriptRef,\* lock of processTranscript
  isSubmittingRef,          \* lock of submitOrder
  resolveCalls,             \* POST process-text-order calls in flight
  confirmCalls,             \* POST confirm-order calls in flight
  revertTimer,              \* the 3 s timeout after a confirmation is pending
  noteStartTimer,           \* pending 50 ms timeout of the add-note button, or <<>>
  secureOrigin,             \* the page is served over HTTPS or from localhost
  \* history variables (not program state)
  sessStops,                \* stopRecording invocations in the current session
  sessResolutions,          \* processTranscript bodies run in the current session
  sessAutoStops,            \* stopRecording calls made by the automatic triggers
  submitBurst,              \* submitOrder invocations since the call in flight was dispatched
  mounted,                  \* the page component is mounted
  matchCase                 \* the backend matching one transcript: menu cache, transcript, result

vars == <<appState, cart, errorMessage, liveTranscript, noteMode, suggestions,
          showOrderTypeModal, recognition, sessionNoteMode, timerRef,
          silenceTimerRef, noteModeRef, isProcessingRef,
          hasAutoStoppedRef, transcriptRef, isProcessingTranscriptRef,
          isSubmittingRef, resolveCalls, confirmCalls, revertTimer,
          noteStartTimer, secureOrigin, sessStops, sessResolutions,
          sessAutoStops, submitBurst, mounted, matchCase>>

----------------------------------------------------------------------------
\* Bounds of the model

MaxCart == 2
MaxQty == 2
MaxInFlight == 2
MaxOps == 3
CapCount == 2

Inc(n) == IF n < CapCount THEN n + 1 ELSE n

----------------------------------------------------------------------------
\* Text

MENU_KEYWORDS == {"k"}

Empty == <<>>

RECURSIVE TrimStart(_)
TrimStart(t) == IF t # <<>> /\ Head(t) = " " THEN TrimStart(Tail(t)) ELSE t

RECURSIVE TrimEnd(_)
TrimEnd(t) == IF t # <<>> /\ t[Len(t)] = " " THEN TrimEnd(SubSeq(t, 1, Len(t) - 1)) ELSE t

Trim(t) == TrimEnd(TrimStart(t))

detectMenuItem(text) == \E i \in 1..Len(text) : text[i] \in MENU_KEYWORDS

\* item.note ? ... : ...   (null and "" are both falsy)
Truthy(note) == note # <<>> /\ note[1] # <<>>

\* What one onresult event carries, <<finalTranscript, interimTranscript>>:
\* white space only, a final keyword, an interim keyword with a space after it
Fragments == { << <<>>, <<" ">> >>,
               << <<"k">>, <<>> >>,
               << <<>>, <<"k", " ">> >> }

\* Items the resolve endpoint returns (quantity 1, no add-on selected, no note)
MenuItems ==
  { [menu_name |-> "A", quantity |-> 1, note |-> <<>>, price |-> 5,
     add_ons |-> << [price |-> 1, selected |-> FALSE] >>] }

\* The items field of an answer that carries no item
NoItem == [menu_name |-> "", quantity |-> 0, note |-> <<>>, price |-> 0, add_ons |-> <<>>]

\* Suggestion lists the resolve endpoint returns with a failure (item names)
SuggestionLists == { <<>>, << <<"k">> >> }

TAKEAWAY_NOTE == <<"T">>

----------------------------------------------------------------------------
\* The component's state as one record, and its installation as next state

Cur ==
  [appState |-> appState, cart |-> cart, errorMessage |-> errorMessage,
   liveTranscript |-> liveTranscript, noteMode |-> noteMode,
   suggestions |-> suggestions, showOrderTypeModal |-> showOrderTypeModal,
   recognition |-> recognition, sessionNoteMode |-> sessionNoteMode,
   timerRef |-> timerRef,
   silenceTimerRef |-> silenceTimerRef, noteModeRef |-> noteModeRef,
   isProcessingRef |-> isProcessingRef, hasAutoStoppedRef |-> hasAutoStoppedRef,
   transcriptRef |-> transcriptRef,
   isProcessingTranscriptRef |-> isProcessingTranscriptRef,
   isSubmittingRef |-> isSubmittingRef, resolveCalls |-> resolveCalls,
   confirmCalls |-> confirmCalls, revertTimer |-> revertTimer,
   noteStartTimer |-> noteStartTimer, secureOrigin |-> secureOrigin,
   sessStops |-> sessStops, sessResolutions |-> sessResolutions,
   sessAutoStops |-> sessAutoStops, submitBurst |-> submitBurst,
   mounted |-> mounted, matchCase |-> matchCase]

Install(s) ==
  /\ appState' = s.appState
  /\ cart' = s.cart
  /\ errorMessage' = s.errorMessage
  /\ liveTranscript' = s.liveTranscript
  /\ noteMode' = s.noteMode
  /\ suggestions' = s.suggestions
  /\ showOrderTypeModal' = s.showOrderTypeModal
  /\ recognition' = s.recognition
  /\ sessionNoteMode' = s.sessionNoteMode
  /\ timerRef' = s.timerRef
  /\ silenceTimerRef' = s.silenceTimerRef
  /\ noteModeRef' = s.noteMode        \* useEffect(() => { noteModeRef.current = noteMode }, [noteMode])
  /\ isProcessingRef' = s.isProcessingRef
  /\ hasAutoStoppedRef' = s.hasAutoStoppedRef
  /\ transcriptRef' = s.transcriptRef
  /\ isProcessingTranscriptRef' = s.isProcessingTranscriptRef
  /\ isSubmittingRef' = s.isSubmittingRef
  /\ resolveCalls' = s.resolveCalls
  /\ confirmCalls' = s.confirmCalls
  /\ revertTimer' = s.revertTimer
  /\ noteStartTimer' = s.noteStartTimer
  /\ secureOrigin' = s.secureOrigin
  /\ sessStops' = s.sessStops
  /\ sessResolutions' = s.sessResolutions
  /\ sessAutoStops' = s.sessAutoStops
  /\ submitBurst' = s.submitBurst
  /\ mounted' = s.mounted
  /\ matchCase' = s.matchCase

----------------------------------------------------------------------------
\* Transcript resolution

\* Mutant of currentNoteIndex: only the closure's noteMode is read
currentNoteIndexClosureOnly(s, closureNoteMode) == closureNoteMode

\* The index processTranscript applies a note to: the ref, or else the
\* noteMode its closure captured.
currentNoteIndex(s, closureNoteMode) ==
  IF s.noteModeRef >= 0 THEN s.noteModeRef ELSE closureNoteMode

\* Mutant of applyNote: the note goes to the first line whatever the index
applyNoteFirstLine(prevCart, index, transcript) ==
  IF index + 1 \in DOMAIN prevCart
  THEN [prevCart EXCEPT ![1].note = <<transcript>>]
  ELSE prevCart

\* setCart(prevCart => ... note: transcript ...)
applyNote(prevCart, index, transcript) ==
  IF index + 1 \in DOMAIN prevCart
  THEN [prevCart EXCEPT ![index + 1].note = <<transcript>>]
  ELSE prevCart

\* Mutant of processTranscript: the empty transcript is not rejected
processTranscriptNoEmptyCheck(s, closureNoteMode) ==
  IF s.isProcessingTranscriptRef
  THEN s
  ELSE [s EXCEPT !.transcriptRef = Empty,
                 !.sessResolutions = Inc(@),
                 !.resolveCalls = Append(@, [src |-> "processTranscript",
                                             transcript |-> Trim(s.transcriptRef)]),
                 !.isProcessingTranscriptRef = TRUE]

\* processTranscript up to its first await (or to its end when it does not
\* reach the fetch); closureNoteMode is the noteMode of the render the
\* function was created in.
processTranscript(s, closureNoteMode) ==
  IF s.isProcessingTranscriptRef
  THEN s
  ELSE
    LET transcript == Trim(s.transcriptRef)
        s1 == [s EXCEPT !.transcriptRef = Empty,
                        !.sessResolutions = Inc(@)]
    IN IF transcript = Empty
       THEN [s1 EXCEPT !.errorMessage = "unheard",
                       !.suggestions = <<>>,
                       !.appState = "error",
                       !.noteMode = -1]
       ELSE IF currentNoteIndex(s, closureNoteMode) >= 0
       THEN [s1 EXCEPT !.cart = applyNote(@, currentNoteIndex(s, closureNoteMode), transcript),
                       !.noteMode = -1,
                       !.appState = "idle",
                       !.liveTranscript = Empty]
       ELSE [s1 EXCEPT !.resolveCalls = Append(@, [src |-> "processTranscript", transcript |-> transcript]),
                       !.isProcessingTranscriptRef = TRUE]

\* Mutant of stopRecording: the lock is released before processTranscript
\* has finished
stopRecordingUnlocksEarly(s, closureNoteMode) ==
  IF s.isProcessingRef
  THEN [s EXCEPT !.sessStops = Inc(@)]
  ELSE
    LET s1 == [s EXCEPT !.sessStops = Inc(@),
                        !.appState = "processing",
                        !.recognition = IF @ = "running" THEN "stopping" ELSE @,
                        !.timerRef = FALSE,
                        !.silenceTimerRef = <<>>]
    IN processTranscript(s1, closureNoteMode)

\* stopRecording: the lock, the phase, the recognizer and the timers, then
\* processTranscript; the lock is released in finally, that is at once
\* unless processTranscript is awaiting its fetch.
stopRecording(s, closureNoteMode) ==
  IF s.isProcessingRef
  THEN [s EXCEPT !.sessStops = Inc(@)]
  ELSE
    LET s1 == [s EXCEPT !.sessStops = Inc(@),
                        !.appState = "processing",
                        !.recognition = IF @ = "running" THEN "stopping" ELSE @,
                        !.timerRef = FALSE,
                        !.silenceTimerRef = <<>>]
        s2 == processTranscript(s1, closureNoteMode)
    IN [s2 EXCEPT !.isProcessingRef = (~s1.isProcessingTranscriptRef /\ s2.isProcessingTranscriptRef)]

\* Mutant of processTranscriptResponse: a failure or an exception empties the cart
processTranscriptResponseDropsCart(s, r) ==
  LET s1 == IF r.kind = "success"
            THEN [s EXCEPT !.cart = Append(@, r.item), !.appState = "idle", !.liveTranscript = Empty]
            ELSE [s EXCEPT !.cart = <<>>, !.appState = "error"]
  IN [s1 EXCEPT !.isProcessingTranscriptRef = FALSE, !.isProcessingRef = FALSE]

\* Mutant of processTranscriptResponse: the locks stay set after an exception
processTranscriptResponseKeepsLock(s, r) ==
  CASE r.kind = "success" ->
         [s EXCEPT !.cart = Append(@, r.item), !.appState = "idle", !.liveTranscript = Empty,
                   !.isProcessingTranscriptRef = FALSE, !.isProcessingRef = FALSE]
    [] r.kind = "failure" ->
         [s EXCEPT !.errorMessage = "notFound", !.suggestions = r.suggestions, !.appState = "error",
                   !.isProcessingTranscriptRef = FALSE, !.isProcessingRef = FALSE]
    [] OTHER ->
         [s EXCEPT !.errorMessage = "unreachable", !.appState = "error", !.noteMode = -1]

\* The continuation of processTranscript after its fetch, then the finally
\* blocks of processTranscript and of stopRecording.
processTranscriptResponse(s, r) ==
  LET s1 == CASE r.kind = "success" ->
                   [s EXCEPT !.cart = Append(@, r.item),
                             !.appState = "idle",
                             !.liveTranscript = Empty]
              [] r.kind = "failure" ->
                   [s EXCEPT !.errorMessage = IF r.error # "" THEN r.error ELSE "notFound",
                             !.suggestions = r.suggestions,
                             !.appState = "error"]
              [] OTHER ->
                   [s EXCEPT !.errorMessage = "unreachable",
                             !.appState = "error",
                             !.noteMode = -1]
  IN [s1 EXCEPT !.isProcessingTranscriptRef = FALSE,
                !.isProcessingRef = FALSE]

----------------------------------------------------------------------------
\* Recording

\* Mutant of startRecording: the latch of the session before is kept
startRecordingKeepsLatch(s, closureAppState, closureNoteMode, started) ==
  IF closureAppState = "recording"
  THEN s
  ELSE
    LET s1 == [s EXCEPT !.suggestions = <<>>, !.errorMessage = ""]
    IN IF ~s.secureOrigin
       THEN [s1 EXCEPT !.errorMessage = "insecure", !.appState = "error"]
       ELSE [s1 EXCEPT !.liveTranscript = IF started THEN Empty ELSE <<"(unavailable)">>,
                       !.timerRef = TRUE,
                       !.recognition = IF started THEN "running" ELSE @,
                       !.sessionNoteMode = IF started THEN closureNoteMode ELSE @,
                       !.appState = "recording",
                       !.sessStops = 0,
                       !.sessResolutions = 0,
                       !.sessAutoStops = 0]

\* startRecording with startLiveTranscript inlined.  closureAppState and
\* closureNoteMode are the appState and noteMode of the render the callback
\* was created in; started says whether the browser gave a recognizer and
\* recognition.start() succeeded.  A recognizer the page starts replaces the
\* one that was live (the browser runs one recognition session per page).
startRecording(s, closureAppState, closureNoteMode, started) ==
  IF closureAppState = "recording"
  THEN s
  ELSE
    LET s1 == [s EXCEPT !.suggestions = <<>>, !.errorMessage = ""]
    IN IF ~s.secureOrigin
       THEN [s1 EXCEPT !.errorMessage = "insecure", !.appState = "error"]
       ELSE [s1 EXCEPT !.liveTranscript = IF started THEN Empty ELSE <<"(unavailable)">>,
                       !.hasAutoStoppedRef = FALSE,
                       !.timerRef = TRUE,
                       !.recognition = IF started THEN "running" ELSE @,
                       !.sessionNoteMode = IF started THEN closureNoteMode ELSE @,
                       !.appState = "recording",
                       !.sessStops = 0,
                       !.sessResolutions = 0,
                       !.sessAutoStops = 0]

\* Mutant of keywordTrigger: noteModeRef is not read
keywordTriggerAnyMode(s, finalTranscript) ==
  /\ finalTranscript # Empty
  /\ detectMenuItem(finalTranscript)
  /\ ~s.hasAutoStoppedRef

\* Mutant of keywordTrigger: the latch is not read
keywordTriggerNoLatch(s, finalTranscript) ==
  /\ s.noteModeRef < 0
  /\ finalTranscript # Empty
  /\ detectMenuItem(finalTranscript)

\* The keyword trigger's condition in recognition.onresult
keywordTrigger(s, finalTranscript) ==
  /\ s.noteModeRef < 0
  /\ finalTranscript # Empty
  /\ detectMenuItem(finalTranscript)
  /\ ~s.hasAutoStoppedRef

\* Mutant of onresult: the silence timeout is armed whatever the latch
onresultArmsWhenLatched(s, f) ==
  LET finalTranscript == f[1]
      interimTranscript == f[2]
      fullTranscript == finalTranscript \o interimTranscript
      s1 == [s EXCEPT !.liveTranscript = fullTranscript,
                      !.transcriptRef = fullTranscript,
                      !.recognition = IF @ = "stopping" THEN "off" ELSE @]
  IN IF keywordTrigger(s, finalTranscript)
     THEN stopRecording([s1 EXCEPT !.hasAutoStoppedRef = TRUE,
                                   !.silenceTimerRef = <<>>,
                                   !.sessAutoStops = Inc(@)],
                        s.sessionNoteMode)
     ELSE [s1 EXCEPT !.silenceTimerRef =
                        IF Trim(fullTranscript) # Empty
                        THEN <<s.sessionNoteMode>>
                        ELSE <<>>]

\* recognition.onresult for one event; a recognizer that was told to stop
\* delivers the result of the audio it had and ends.
onresult(s, f) ==
  LET finalTranscript == f[1]
      interimTranscript == f[2]
      fullTranscript == finalTranscript \o interimTranscript
      s1 == [s EXCEPT !.liveTranscript = fullTranscript,
                      !.transcriptRef = fullTranscript,
                      !.recognition = IF @ = "stopping" THEN "off" ELSE @]
  IN IF keywordTrigger(s, finalTranscript)
     THEN stopRecording([s1 EXCEPT !.hasAutoStoppedRef = TRUE,
                                   !.silenceTimerRef = <<>>,
                                   !.sessAutoStops = Inc(@)],
                        s.sessionNoteMode)
     ELSE [s1 EXCEPT !.silenceTimerRef =
                        IF Trim(fullTranscript) # Empty /\ ~s.hasAutoStoppedRef
                        THEN <<s.sessionNoteMode>>
                        ELSE <<>>]

\* The callback of the silence timeout armed by onresult
silenceTimeout(s) ==
  LET s1 == [s EXCEPT !.silenceTimerRef = <<>>]
  IN IF s.hasAutoStoppedRef
     THEN s1
     ELSE stopRecording([s1 EXCEPT !.hasAutoStoppedRef = TRUE,
                                   !.sessAutoStops = Inc(@)],
                        s.silenceTimerRef[1])

\* recognition.onerror; the recognizer ends after an error
onerror(s, error) ==
  LET s1 == [s EXCEPT !.recognition = "off"]
  IN CASE error = "no-speech" -> [s1 EXCEPT !.liveTranscript = <<"(no-speech)">>]
       [] error \in {"not-allowed", "service-not-allowed"} ->
            [s1 EXCEPT !.errorMessage = "micDenied", !.appState = "error"]
       [] OTHER -> s1

toggleRecording(s, started) ==
  IF s.appState = "recording"
  THEN stopRecording(s, s.noteMode)
  ELSE startRecording(s, s.appState, s.noteMode, started)

----------------------------------------------------------------------------
\* Cart

deleteFromCart(prevCart, index) ==
  SubSeq(prevCart, 1, index) \o SubSeq(prevCart, index + 2, Len(prevCart))

updateCartItem(prevCart, index, updatedItem) ==
  [prevCart EXCEPT ![index + 1] = updatedItem]

RECURSIVE selectedSum(_)
selectedSum(addOns) ==
  IF addOns = <<>> THEN 0
  ELSE (IF Head(addOns).selected THEN Head(addOns).price ELSE 0) + selectedSum(Tail(addOns))

\* Mutant of toggleAddOn: the add-on's price is added whichever way it is toggled
toggleAddOnAddsOnly(s, index, aIdx) ==
  LET item == s.cart[index + 1]
      newAddOns == [item.add_ons EXCEPT ![aIdx + 1].selected = ~@]
  IN [s EXCEPT !.cart = updateCartItem(@, index, [item EXCEPT !.add_ons = newAddOns,
                                                              !.price = @ + item.add_ons[aIdx + 1].price])]

\* Mutant of toggleAddOn: the price is not recomputed
toggleAddOnKeepsPrice(s, index, aIdx) ==
  LET item == s.cart[index + 1]
      newAddOns == [item.add_ons EXCEPT ![aIdx + 1].selected = ~@]
  IN [s EXCEPT !.cart = updateCartItem(@, index, [item EXCEPT !.add_ons = newAddOns])]

\* onClick of an add-on button of cart line index
toggleAddOn(s, index, aIdx) ==
  LET item == s.cart[index + 1]
      newAddOns == [item.add_ons EXCEPT ![aIdx + 1].selected = ~@]
      basePrice == item.price - selectedSum(item.add_ons)
      newPrice == basePrice + selectedSum(newAddOns)
  IN [s EXCEPT !.cart = updateCartItem(@, index, [item EXCEPT !.add_ons = newAddOns, !.price = newPrice])]

\* Mutant of the minus button's onClick: the quantity is lowered even from 1
decrementQuantityBelowOne(s, index) ==
  LET item == s.cart[index + 1]
  IN [s EXCEPT !.cart = updateCartItem(@, index, [item EXCEPT !.quantity = @ - 1])]

\* onClick of the minus button of the quantity stepper
decrementQuantity(s, index) ==
  LET item == s.cart[index + 1]
  IN IF item.quantity > 1
     THEN [s EXCEPT !.cart = updateCartItem(@, index, [item EXCEPT !.quantity = @ - 1])]
     ELSE [s EXCEPT !.cart = deleteFromCart(@, index)]

\* onClick of the plus button of the quantity stepper
incrementQuantity(s, index) ==
  LET item == s.cart[index + 1]
  IN [s EXCEPT !.cart = updateCartItem(@, index, [item EXCEPT !.quantity = @ + 1])]

\* Mutant of getCartTotal: the quantities are not counted
RECURSIVE getCartTotalOfUnits(_)
getCartTotalOfUnits(c) ==
  IF c = <<>> THEN 0
  ELSE Head(c).price + getCartTotalOfUnits(Tail(c))

RECURSIVE getCartTotal(_)
getCartTotal(c) ==
  IF c = <<>> THEN 0
  ELSE Head(c).price * Head(c).quantity + getCartTotal(Tail(c))

resetToIdle(s) ==
  [s EXCEPT !.appState = "idle",
            !.cart = <<>>,
            !.errorMessage = "",
            !.liveTranscript = Empty,
            !.suggestions = <<>>,
            !.transcriptRef = Empty]

----------------------------------------------------------------------------
\* Order confirmation

\* Mutant of confirmOrder: the submission lock is not read
confirmOrderNoLockCheck(s) ==
  IF Len(s.cart) = 0 \/ s.appState = "processing"
  THEN s
  ELSE [s EXCEPT !.showOrderTypeModal = TRUE]

\* Mutant of confirmOrder: the length of the cart is not read
confirmOrderOnEmptyCart(s) ==
  IF s.appState = "processing" \/ s.isSubmittingRef
  THEN s
  ELSE [s EXCEPT !.showOrderTypeModal = TRUE]

confirmOrder(s) ==
  IF Len(s.cart) = 0 \/ s.appState = "processing" \/ s.isSubmittingRef
  THEN s
  ELSE [s EXCEPT !.showOrderTypeModal = TRUE]

\* Mutant of itemToSend: the marker is appended to every note that is not null
itemToSendNoTrim(item, dineOption) ==
  IF dineOption = "takeaway"
  THEN [menu_name |-> item.menu_name, quantity |-> item.quantity,
        note |-> <<IF item.note # <<>> THEN item.note[1] \o <<",", " ">> \o TAKEAWAY_NOTE ELSE TAKEAWAY_NOTE>>,
        price |-> item.price, add_ons |-> item.add_ons, dineOption |-> "takeaway"]
  ELSE [menu_name |-> item.menu_name, quantity |-> item.quantity,
        note |-> item.note, price |-> item.price, add_ons |-> item.add_ons,
        dineOption |-> "dine-in"]

\* One element of itemsToSend
itemToSend(item, dineOption) ==
  IF dineOption = "takeaway"
  THEN LET existingNote == IF Truthy(item.note) THEN Trim(item.note[1]) ELSE Empty
           newNote == IF existingNote # Empty
                      THEN existingNote \o <<",", " ">> \o TAKEAWAY_NOTE
                      ELSE TAKEAWAY_NOTE
       IN [menu_name |-> item.menu_name, quantity |-> item.quantity,
           note |-> <<newNote>>, price |-> item.price, add_ons |-> item.add_ons,
           dineOption |-> "takeaway"]
  ELSE [menu_name |-> item.menu_name, quantity |-> item.quantity,
        note |-> item.note, price |-> item.price, add_ons |-> item.add_ons,
        dineOption |-> "dine-in"]

\* Mutant of submitOrder: the notes sent are written to the cart's lines too
submitOrderMarksCart(s, dineOption) ==
  IF s.isSubmittingRef
  THEN [s EXCEPT !.submitBurst = IF s.confirmCalls # <<>> THEN Inc(@) ELSE @]
  ELSE [s EXCEPT !.isSubmittingRef = TRUE,
                 !.showOrderTypeModal = FALSE,
                 !.appState = "processing",
                 !.cart = [i \in DOMAIN s.cart |->
                             [s.cart[i] EXCEPT !.note = itemToSend(s.cart[i], dineOption).note]],
                 !.confirmCalls =
                    Append(@, [items |-> [i \in DOMAIN s.cart |-> itemToSend(s.cart[i], dineOption)],
                               total_price |-> getCartTotal(s.cart)]),
                 !.submitBurst = 1]

\* Mutant of submitOrder: the submission lock is not read
submitOrderNoLock(s, dineOption) ==
  [s EXCEPT !.isSubmittingRef = TRUE,
            !.showOrderTypeModal = FALSE,
            !.appState = "processing",
            !.confirmCalls =
               Append(@, [items |-> [i \in DOMAIN s.cart |-> itemToSend(s.cart[i], dineOption)],
                          total_price |-> getCartTotal(s.cart)]),
            !.submitBurst = Inc(@)]

\* Mutant of submitOrder: the order is shown as confirmed when it is dispatched
submitOrderOptimistic(s, dineOption) ==
  IF s.isSubmittingRef
  THEN [s EXCEPT !.submitBurst = IF s.confirmCalls # <<>> THEN Inc(@) ELSE @]
  ELSE [s EXCEPT !.isSubmittingRef = TRUE,
                 !.showOrderTypeModal = FALSE,
                 !.appState = "confirmed",
                 !.confirmCalls =
                    Append(@, [items |-> [i \in DOMAIN s.cart |-> itemToSend(s.cart[i], dineOption)],
                               total_price |-> getCartTotal(s.cart)]),
                 !.submitBurst = 1]

\* submitOrder up to its fetch
submitOrder(s, dineOption) ==
  IF s.isSubmittingRef
  THEN [s EXCEPT !.submitBurst = IF s.confirmCalls # <<>> THEN Inc(@) ELSE @]
  ELSE [s EXCEPT !.isSubmittingRef = TRUE,
                 !.showOrderTypeModal = FALSE,
                 !.appState = "processing",
                 !.confirmCalls =
                    Append(@, [items |-> [i \in DOMAIN s.cart |-> itemToSend(s.cart[i], dineOption)],
                               total_price |-> getCartTotal(s.cart)]),
                 !.submitBurst = 1]

\* Mutant of submitOrderResponse: the lock is released on success too
submitOrderResponseUnlock(s, kind) ==
  CASE kind = "success" ->
         [s EXCEPT !.appState = "confirmed", !.revertTimer = TRUE, !.isSubmittingRef = FALSE]
    [] kind = "failure" ->
         [s EXCEPT !.errorMessage = "saveFailed", !.appState = "error", !.isSubmittingRef = FALSE]
    [] OTHER ->
         [s EXCEPT !.errorMessage = "saveUnreachable", !.appState = "error", !.isSubmittingRef = FALSE]

\* The continuation of submitOrder after its fetch
submitOrderResponse(s, kind) ==
  CASE kind = "success" ->
         [s EXCEPT !.appState = "confirmed", !.revertTimer = TRUE]
    [] kind = "failure" ->
         [s EXCEPT !.errorMessage = "saveFailed",
                   !.appState = "error",
                   !.isSubmittingRef = FALSE]
    [] OTHER ->
         [s EXCEPT !.errorMessage = "saveUnreachable",
                   !.appState = "error",
                   !.isSubmittingRef = FALSE]

\* Mutant of revertTimeout: the cart is kept
revertTimeoutKeepsCart(s) ==
  [s EXCEPT !.appState = "idle", !.errorMessage = "", !.liveTranscript = Empty,
            !.suggestions = <<>>, !.transcriptRef = Empty,
            !.isSubmittingRef = FALSE, !.revertTimer = FALSE]

\* The callback of the 3 s timeout set on a successful confirmation
revertTimeout(s) ==
  [resetToIdle(s) EXCEPT !.isSubmittingRef = FALSE, !.revertTimer = FALSE]

\* The cleanup of the mount effect: the recognizer is stopped and the
\* interval behind timerRef is cleared; silenceTimerRef, the 3 s timeout and
\* the 50 ms timeout of the add-note button are not touched.
unmount(s) ==
  [s EXCEPT !.mounted = FALSE,
            !.recognition = IF @ = "running" THEN "stopping" ELSE @,
            !.timerRef = FALSE]

----------------------------------------------------------------------------
\* Suggestions

\* handleSuggestionClick up to its fetch
handleSuggestionClick(s, text) ==
  [s EXCEPT !.appState = "processing",
            !.suggestions = <<>>,
            !.errorMessage = "",
            !.resolveCalls = Append(@, [src |-> "handleSuggestionClick", transcript |-> text])]

\* Mutant of handleSuggestionResponse: the catch block does not set the phase
handleSuggestionResponseSilentCatch(s, r) ==
  CASE r.kind = "success" ->
         [s EXCEPT !.cart = Append(@, r.item), !.appState = "idle"]
    [] r.kind = "failure" ->
         [s EXCEPT !.errorMessage = IF r.error # "" THEN r.error ELSE "notFoundShort",
                   !.suggestions = r.suggestions,
                   !.appState = "error"]
    [] OTHER ->
         [s EXCEPT !.errorMessage = "unreachable"]

\* The continuation of handleSuggestionClick after its fetch
handleSuggestionResponse(s, r) ==
  CASE r.kind = "success" ->
         [s EXCEPT !.cart = Append(@, r.item), !.appState = "idle"]
    [] r.kind = "failure" ->
         [s EXCEPT !.errorMessage = IF r.error # "" THEN r.error ELSE "notFoundShort",
                   !.suggestions = r.suggestions,
                   !.appState = "error"]
    [] OTHER ->
         [s EXCEPT !.errorMessage = "unreachable", !.appState = "error"]

\* What the resolve endpoint answers: an item, a failure (sold out, or no
\* match with or without suggestions), or nothing usable (the fetch throws)
ResolveResponses ==
  [kind : {"success"}, item : MenuItems, error : {""}, suggestions : {<<>>}]
    \cup [kind : {"failure"}, item : {NoItem}, error : {"soldOut"}, suggestions : {<<>>}]
    \cup [kind : {"failure"}, item : {NoItem}, error : {""}, suggestions : SuggestionLists \ {<<>>}]
    \cup [kind : {"throw"}, item : {NoItem}, error : {""}, suggestions : {<<>>}]

ConfirmResponses == {"success", "failure", "throw"}

RemoveAt(q, i) == SubSeq(q, 1, i - 1) \o SubSeq(q, i + 1, Len(q))

----------------------------------------------------------------------------
\* The backend's transcript matching (check_sold_out, then process_order).
\* A transcript and a keyword are sequences of characters; an item of the
\* menu cache is the list of its keywords, and is named by its position in
\* MENU_CACHE.items (active) or MENU_CACHE.inactive_items (sold out).

MaxTranscript == 3
MaxKeywords == 2
MaxActive == 2
MaxInactive == 1

Chars == {"a", "b", "c"}

Transcripts == UNION { [1..n -> Chars] : n \in 1..MaxTranscript }

Keywords == { <<"a">>, <<"b">>, <<"c">>, <<"a", "b">> }

\* Keyword lists of an item: not empty, no keyword twice
KeywordLists ==
  { ks \in UNION { [1..n -> Keywords] : n \in 1..MaxKeywords } :
      \A i, j \in DOMAIN ks : ks[i] = ks[j] => i = j }

MenuCaches ==
  [items : UNION { [1..n -> KeywordLists] : n \in 0..MaxActive },
   inactive_items : UNION { [1..n -> KeywordLists] : n \in 0..MaxInactive }]

NoResult == [kind |-> "none", item |-> 0, score |-> 0]

\* keyword in transcript
contains(transcript, keyword) ==
  \E i \in 0..(Len(transcript) - Len(keyword)) :
    SubSeq(transcript, i + 1, i + Len(keyword)) = keyword

\* Mutant of score: every keyword that occurs counts 1
RECURSIVE scoreByCount(_, _)
scoreByCount(keywords, transcript) ==
  IF keywords = <<>> THEN 0
  ELSE (IF contains(transcript, Head(keywords)) THEN 1 ELSE 0)
         + scoreByCount(Tail(keywords), transcript)

\* for keyword in item["keywords"]: if keyword in transcript: score += len(keyword)
RECURSIVE score(_, _)
score(keywords, transcript) ==
  IF keywords = <<>> THEN 0
  ELSE (IF contains(transcript, Head(keywords)) THEN Len(Head(keywords)) ELSE 0)
         + score(Tail(keywords), transcript)

\* The sold-out items a keyword of which occurs in the transcript
check_sold_out(cache, transcript) ==
  { j \in DOMAIN cache.inactive_items :
      \E k \in DOMAIN cache.inactive_items[j] :
        contains(transcript, cache.inactive_items[j][k]) }

\* Mutant of process_order: the first active item with a positive score
processOrderFirstHit(cache, transcript) ==
  LET hits == { i \in DOMAIN cache.items : score(cache.items[i], transcript) > 0 }
  IN IF hits = {}
     THEN { [kind |-> "NoMatch", item |-> 0, score |-> 0] }
     ELSE LET i == CHOOSE h \in hits : \A g \in hits : h <= g
          IN { [kind |-> "Matched", item |-> i, score |-> score(cache.items[i], transcript)] }

\* Score-based ranking of the active items: the results process_order can
\* give, one for each item of the highest score (which of several items of
\* equal score is returned is not fixed); no match when no keyword occurs
process_order(cache, transcript) ==
  LET best == { i \in DOMAIN cache.items :
                  \A g \in DOMAIN cache.items :
                    score(cache.items[g], transcript) <= score(cache.items[i], transcript) }
  IN IF \A i \in DOMAIN cache.items : score(cache.items[i], transcript) = 0
     THEN { [kind |-> "NoMatch", item |-> 0, score |-> 0] }
     ELSE { [kind |-> "Matched", item |-> i, score |-> score(cache.items[i], transcript)] :
              i \in best }

\* Mutant of match: the sold-out check runs only when no active item matches
matchActiveFirst(cache, transcript) ==
  IF \E r \in process_order(cache, transcript) : r.kind = "Matched"
  THEN process_order(cache, transcript)
  ELSE IF check_sold_out(cache, transcript) # {}
  THEN { [kind |-> "SoldOut",
          item |-> CHOOSE j \in check_sold_out(cache, transcript) :
                     \A h \in check_sold_out(cache, transcript) : j <= h,
          score |-> 0] }
  ELSE process_order(cache, transcript)

\* Transcript -> check_sold_out() -> process_order(): the results of
\* matching one transcript; the first sold-out item in scan order is reported
match(cache, transcript) ==
  IF check_sold_out(cache, transcript) # {}
  THEN { [kind |-> "SoldOut",
          item |-> CHOOSE j \in check_sold_out(cache, transcript) :
                     \A h \in check_sold_out(cache, transcript) : j <= h,
          score |-> 0] }
  ELSE process_order(cache, transcript)

----------------------------------------------------------------------------
\* Initial state: the component as mounted

PageInit ==
  /\ appState = "idle"
  /\ cart = <<>>
  /\ errorMessage = ""
  /\ liveTranscript = Empty
  /\ noteMode = -1
  /\ suggestions = <<>>
  /\ showOrderTypeModal = FALSE
  /\ recognition = "off"
  /\ sessionNoteMode = -1
  /\ timerRef = FALSE
  /\ silenceTimerRef = <<>>
  /\ noteModeRef = -1
  /\ isProcessingRef = FALSE
  /\ hasAutoStoppedRef = FALSE
  /\ transcriptRef = Empty
  /\ isProcessingTranscriptRef = FALSE
  /\ isSubmittingRef = FALSE
  /\ resolveCalls = <<>>
  /\ confirmCalls = <<>>
  /\ revertTimer = FALSE
  /\ noteStartTimer = <<>>
  /\ secureOrigin \in BOOLEAN
  /\ sessStops = 0
  /\ sessResolutions = 0
  /\ sessAutoStops = 0
  /\ submitBurst = 0
  /\ mounted = TRUE

\* The page as mounted; the backend has matched nothing
Init ==
  /\ PageInit
  /\ matchCase = [MENU_CACHE |-> [items |-> <<>>, inactive_items |-> <<>>],
                  transcript |-> <<>>, result |-> NoResult]

\* The page as mounted and the backend about to match one transcript against
\* one menu cache
InitMatch ==
  /\ PageInit
  /\ matchCase \in [MENU_CACHE : MenuCaches, transcript : Transcripts, result : {NoResult}]

----------------------------------------------------------------------------
\* Actions: one per event the page handles

\* The microphone button (enabled in idle, error and recording)
MicButton ==
  /\ appState \in {"idle", "error", "recording"}
  /\ \E started \in (IF appState = "recording" THEN {TRUE} ELSE BOOLEAN) :
       Install(toggleRecording(Cur, started))

\* A result event of the live recognizer, carrying a fragment of F
RecognitionResult(F) ==
  /\ recognition \in {"running", "stopping"}
  /\ \E f \in F : Install(onresult(Cur, f))

\* The silence timeout expires
SilenceTimeout ==
  /\ silenceTimerRef # <<>>
  /\ Install(silenceTimeout(Cur))

\* An error event of the live recognizer
RecognitionError ==
  /\ recognition \in {"running", "stopping"}
  /\ \E error \in {"no-speech", "not-allowed", "network"} :
       Install(onerror(Cur, error))

\* The recognizer ends (onend does nothing)
RecognitionEnd ==
  /\ recognition \in {"running", "stopping"}
  /\ Install([Cur EXCEPT !.recognition = "off"])

\* The resolve endpoint answers one of the calls in flight with an answer of R
ResolveResponse(R) ==
  \E i \in DOMAIN resolveCalls, r \in R :
    /\ r.kind = "success" => Len(cart) < MaxCart
    /\ LET s == [Cur EXCEPT !.resolveCalls = RemoveAt(@, i)]
       IN IF resolveCalls[i].src = "processTranscript"
          THEN Install(processTranscriptResponse(s, r))
          ELSE Install(handleSuggestionResponse(s, r))

\* A suggestion chip (shown in phase error)
SuggestionClick ==
  /\ appState = "error"
  /\ Len(resolveCalls) < MaxInFlight
  /\ \E i \in DOMAIN suggestions :
       Install(handleSuggestionClick(Cur, suggestions[i]))

\* The retry link (shown in phase error)
RetryLink ==
  /\ appState = "error"
  /\ Install([Cur EXCEPT !.errorMessage = "", !.appState = "idle"])

AddOnButton ==
  \E i \in DOMAIN cart : \E a \in DOMAIN cart[i].add_ons :
    Install(toggleAddOn(Cur, i - 1, a - 1))

MinusButton ==
  \E i \in DOMAIN cart : Install(decrementQuantity(Cur, i - 1))

PlusButton ==
  \E i \in DOMAIN cart :
    /\ cart[i].quantity < MaxQty
    /\ Install(incrementQuantity(Cur, i - 1))

\* The edit button of a line that has a note
EditNoteButton ==
  \E i \in DOMAIN cart :
    /\ Truthy(cart[i].note)
    /\ Install([Cur EXCEPT !.noteMode = i - 1])

\* The add-note button of a line that has no note; the timeout it sets
\* calls the startRecording of the render the button belongs to, which
\* reads of that render whether appState was "recording", and noteMode
AddNoteButton ==
  \E i \in DOMAIN cart :
    /\ ~Truthy(cart[i].note)
    /\ noteStartTimer = <<>>
    /\ Install([Cur EXCEPT !.noteMode = i - 1,
                                      !.noteStartTimer = << [appState |-> IF appState = "recording" THEN "recording" ELSE "other",
                                                          noteMode |-> noteMode] >>])

NoteStartTimeout ==
  /\ noteStartTimer # <<>>
  /\ \E started \in BOOLEAN :
       Install(startRecording([Cur EXCEPT !.noteStartTimer = <<>>],
                              noteStartTimer[1].appState, noteStartTimer[1].noteMode, started))

\* The overlay shown in note mode
NoteOverlay ==
  /\ noteMode >= 0
  /\ Install([Cur EXCEPT !.noteMode = -1])

\* The clear button of the checkout footer
ClearButton ==
  /\ Len(cart) > 0
  /\ Install(resetToIdle([Cur EXCEPT !.cart = <<>>]))

\* confirmOrder is invoked; its own guard decides
ConfirmButton ==
  Install(confirmOrder(Cur))

\* submitOrder is invoked from the modal, or again while a submission holds the lock
ModalChoice ==
  /\ showOrderTypeModal \/ isSubmittingRef
  /\ \E dineOption \in {"dine-in", "takeaway"} :
       Install(submitOrder(Cur, dineOption))

ModalCancel ==
  /\ showOrderTypeModal
  /\ Install([Cur EXCEPT !.showOrderTypeModal = FALSE])

\* The order store answers the confirmation in flight
ConfirmResponse ==
  \E i \in DOMAIN confirmCalls, kind \in ConfirmResponses :
    Install(submitOrderResponse([Cur EXCEPT !.confirmCalls = RemoveAt(@, i),
                                            !.submitBurst = 0], kind))

RevertTimeout ==
  /\ revertTimer
  /\ Install(revertTimeout(Cur))

\* The backend answers the transcript it was given
Match ==
  /\ matchCase.result = NoResult
  /\ \E r \in match(matchCase.MENU_CACHE, matchCase.transcript) :
       Install([Cur EXCEPT !.matchCase.result = r])

\* The component unmounts: React runs the cleanup of the mount effect
Unmount ==
  /\ mounted
  /\ Install(unmount(Cur))

----------------------------------------------------------------------------
\* Specifications.  Each runs, from the mounted component, the handlers of
\* one part of the page in every interleaving; the parts share the phase,
\* the cart and the locks.

\* Recording and transcript resolution in order mode, with suggestions
NextCapture ==
  \/ MicButton
  \/ RecognitionResult(Fragments)
  \/ SilenceTimeout
  \/ RecognitionError
  \/ RecognitionEnd
  \/ ResolveResponse(ResolveResponses)
  \/ SuggestionClick
  \/ RetryLink
  \/ ClearButton

SpecCapture == Init /\ [][NextCapture]_vars

\* Recording and transcript resolution with note mode; no suggestion is
\* tapped here, so the answers that carry suggestions are left to SpecCapture
NextNotes ==
  \/ MicButton
  \/ RecognitionResult(Fragments)
  \/ SilenceTimeout
  \/ RecognitionError
  \/ RecognitionEnd
  \/ ResolveResponse({r \in ResolveResponses : r.suggestions = <<>>})
  \/ RetryLink
  \/ EditNoteButton
  \/ AddNoteButton
  \/ NoteStartTimeout
  \/ NoteOverlay
  \/ ClearButton

SpecNotes == Init /\ [][NextNotes]_vars

\* Quantities and order confirmation; lines enter the cart through a
\* recording that ends on a final keyword
NextOrder ==
  \/ MicButton
  \/ RecognitionResult({f \in Fragments : detectMenuItem(f[1])})
  \/ ResolveResponse({r \in ResolveResponses : r.suggestions = <<>>})
  \/ RetryLink
  \/ MinusButton
  \/ PlusButton
  \/ ClearButton
  \/ ConfirmButton
  \/ ModalChoice
  \/ ModalCancel
  \/ ConfirmResponse
  \/ RevertTimeout

SpecOrder == Init /\ [][NextOrder]_vars

\* Add-ons and quantities of the lines of the cart; the lines are of two
\* menu items with different prices and add-ons
CartMenuItems ==
  { [menu_name |-> "A", quantity |-> 1, note |-> <<>>, price |-> 5,
     add_ons |-> << [price |-> 1, selected |-> FALSE], [price |-> 2, selected |-> FALSE] >>],
    [menu_name |-> "B", quantity |-> 1, note |-> <<>>, price |-> 7,
     add_ons |-> << [price |-> 3, selected |-> FALSE] >>] }

NextCart ==
  \/ MicButton
  \/ RecognitionResult({f \in Fragments : detectMenuItem(f[1])})
  \/ ResolveResponse([kind : {"success"}, item : CartMenuItems, error : {""}, suggestions : {<<>>}])
  \/ RetryLink
  \/ AddOnButton
  \/ MinusButton
  \/ PlusButton
  \/ ClearButton

SpecCart == Init /\ [][NextCart]_vars

\* Submission of carts whose lines came with notes: none, a note with
\* whitespace before it, a blank one
CheckoutItems ==
  { [menu_name |-> "A", quantity |-> 1, note |-> <<>>, price |-> 5,
     add_ons |-> << [price |-> 1, selected |-> FALSE] >>],
    [menu_name |-> "B", quantity |-> 2, note |-> << <<" ", "x">> >>, price |-> 7,
     add_ons |-> <<>>],
    [menu_name |-> "C", quantity |-> 1, note |-> << <<" ">> >>, price |-> 3,
     add_ons |-> <<>>] }

NextCheckout ==
  \/ MicButton
  \/ RecognitionResult({f \in Fragments : detectMenuItem(f[1])})
  \/ ResolveResponse([kind : {"success"}, item : CheckoutItems, error : {""}, suggestions : {<<>>}])
  \/ RetryLink
  \/ ClearButton
  \/ ConfirmButton
  \/ ModalChoice
  \/ ModalCancel
  \/ ConfirmResponse
  \/ RevertTimeout

SpecCheckout == Init /\ [][NextCheckout]_vars

\* SpecOrder with the revert timeout, once set, expiring at last (nothing
\* in the page clears it)
SpecOrderFair == SpecOrder /\ WF_vars(RevertTimeout)

\* The three callers of the network (processTranscript, handleSuggestionClick,
\* submitOrder) together; while calls are in flight one of them is answered
\* at last: the endpoint returns or the fetch throws
NextProcessing ==
  \/ MicButton
  \/ RecognitionResult({f \in Fragments : detectMenuItem(f[1])})
  \/ ResolveResponse(ResolveResponses)
  \/ SuggestionClick
  \/ ConfirmButton
  \/ ModalChoice
  \/ ConfirmResponse
  \/ RevertTimeout

\* The backend matching one transcript against one menu cache, for every
\* cache and transcript within the bounds
NextMatch == Match

SpecMatch == InitMatch /\ [][NextMatch]_vars

\* The cart panel can be pressed: neither the note-mode overlay (z-40, over
\* the panel's z-10 header and footer) nor the order-type modal (z-50, over
\* the whole page) lies over it
panelUncovered == noteMode < 0 /\ ~showOrderTypeModal

\* Note mode beside the buttons that shrink the cart and the confirmation;
\* the panel's buttons are pressed only while the panel is uncovered, the
\* microphone button only while the modal is closed.
NextNoteIndex ==
  \/ ~showOrderTypeModal /\ MicButton
  \/ RecognitionResult({f \in Fragments : detectMenuItem(f[1])})
  \/ ResolveResponse([kind : {"success"}, item : MenuItems, error : {""}, suggestions : {<<>>}])
  \/ panelUncovered /\ AddNoteButton
  \/ NoteStartTimeout
  \/ NoteOverlay
  \/ panelUncovered /\ MinusButton
  \/ panelUncovered /\ ClearButton
  \/ panelUncovered /\ ConfirmButton
  \/ ModalChoice
  \/ ConfirmResponse
  \/ RevertTimeout

SpecNoteIndex == Init /\ [][NextNoteIndex]_vars

\* Sessions whose every result event is interim and carries text: none
\* stops the session on a keyword, each arms the silence timeout afresh; the
\* timeout, once armed and not cleared, expires at last.
NextSilence ==
  \/ MicButton
  \/ RecognitionResult({f \in Fragments : f[1] = Empty /\ Trim(f[2]) # Empty})
  \/ SilenceTimeout
  \/ RecognitionError
  \/ ResolveResponse(ResolveResponses)
  \/ ClearButton

SpecSilenceFair == Init /\ [][NextSilence]_vars /\ WF_vars(SilenceTimeout)

\* The page until it unmounts: a session, its resolution, a confirmation
\* and the revert, with the unmount at any moment.  The user's events and
\* the callbacks are followed while the component is mounted.
NextUnmount ==
  \/ mounted /\ MicButton
  \/ mounted /\ RecognitionResult(Fragments)
  \/ mounted /\ SilenceTimeout
  \/ mounted /\ ResolveResponse(ResolveResponses)
  \/ mounted /\ ConfirmButton
  \/ mounted /\ ModalChoice
  \/ mounted /\ ConfirmResponse
  \/ mounted /\ RevertTimeout
  \/ Unmount

SpecUnmount == Init /\ [][NextUnmount]_vars

SpecProcessingFair ==
  /\ Init /\ [][NextProcessing]_vars
  /\ WF_vars(ResolveResponse(ResolveResponses) \/ ConfirmResponse)

----------------------------------------------------------------------------
\* Properties

\* A step in which stopRecording is called by the manual toggle or by the
\* silence timeout, gets past its lock and runs processTranscript past its
\* lock, on the transcript latched in transcriptRef
StopOnLatchedTranscript ==
  /\ \/ MicButton /\ appState = "recording"
     \/ SilenceTimeout /\ ~hasAutoStoppedRef
  /\ ~isProcessingRef
  /\ ~isProcessingTranscriptRef

\* C1: in every recording session transcript resolution runs at most once,
\* and exactly once if stopRecording was invoked at least once in it.
C1_ResolutionOncePerSession ==
  /\ sessResolutions <= 1
  /\ sessStops >= 1 => sessResolutions = 1

\* C2: within one recording session the automatic triggers (keyword and
\* silence timeout) together call stopRecording at most once, and only with
\* the latch set; the count starts again when startRecording resets the latch.
C2_OneAutoStopPerSession ==
  /\ sessAutoStops <= 1
  /\ sessAutoStops = 1 <=> hasAutoStoppedRef

\* C2 witness: after the automatic stop of a session has run its resolution,
\* a later result of the same session brought text, and no timeout is armed.
C2_Witness ==
  /\ hasAutoStoppedRef
  /\ sessAutoStops = 1
  /\ sessResolutions = 1
  /\ Trim(transcriptRef) # Empty
  /\ silenceTimerRef = <<>>
  /\ noteMode = -1

\* C3: however often submitOrder is invoked before the response to the
\* first invocation returns, exactly one confirm-order call is in flight.
C3_OneSubmission ==
  submitBurst >= 1 => Len(confirmCalls) = 1

\* C3 witness: submitOrder was invoked again while its call was in flight.
C3_Witness ==
  /\ submitBurst >= 2
  /\ Len(confirmCalls) = 1

\* C4: at most one process-text-order call is in flight, and at most one
\* confirm-order call is in flight.
C4_OneCallInFlight ==
  /\ Len(resolveCalls) <= 1
  /\ Len(confirmCalls) <= 1

\* C5: from the successful response until the revert timeout has run, the
\* submission lock is held and no confirm-order call is in flight; the lock
\* is released only by the step that resets the page to idle with an empty cart.
C5_LockHeldUntilRevert ==
  [][ /\ revertTimer' => (isSubmittingRef' /\ confirmCalls' = <<>>)
      /\ (revertTimer /\ ~isSubmittingRef') =>
            (~revertTimer' /\ appState' = "idle" /\ cart' = <<>>) ]_vars

\* C5 witness: during the window the page is back in idle with a line in the
\* cart, where only the lock keeps confirmOrder from opening the prompt.
C5_Witness ==
  /\ revertTimer
  /\ isSubmittingRef
  /\ appState = "idle"
  /\ cart # <<>>

\* C6: confirmOrder invoked with an empty cart, with the submission lock
\* held or in phase processing changes nothing, and the fulfilment-mode
\* prompt never opens in such a state.
C6_ConfirmRejected ==
  [][ /\ (ConfirmButton /\ (Len(cart) = 0 \/ isSubmittingRef \/ appState = "processing"))
           => UNCHANGED vars
      /\ (~showOrderTypeModal /\ showOrderTypeModal')
           => (Len(cart) > 0 /\ ~isSubmittingRef /\ appState # "processing") ]_vars

\* C6 witness: a confirmation is in flight while the page is idle with a
\* line in the cart, so that the lock alone rejects confirmOrder.
C6_Witness ==
  /\ isSubmittingRef
  /\ confirmCalls # <<>>
  /\ appState = "idle"
  /\ cart # <<>>
  /\ ~showOrderTypeModal

\* C7: a resolution that finds the latched transcript empty or blank ends
\* in phase error with the unheard message, the cart unchanged and no call
\* sent; no process-text-order call ever carries an empty or blank transcript.
C7_BlankTranscript ==
  [][ /\ (StopOnLatchedTranscript /\ Trim(transcriptRef) = Empty) =>
            /\ appState' = "error"
            /\ errorMessage' = "unheard"
            /\ cart' = cart
            /\ resolveCalls' = resolveCalls
            /\ confirmCalls' = confirmCalls
      /\ \A i \in DOMAIN resolveCalls' : Trim(resolveCalls'[i].transcript) # Empty ]_vars

\* C7 witness: the unheard error is shown over a cart that has a line.
C7_Witness ==
  /\ appState = "error"
  /\ errorMessage = "unheard"
  /\ cart # <<>>
  /\ resolveCalls = <<>>

\* C8: a resolution of a non-blank transcript in note mode (noteMode >= 0)
\* sends no process-text-order call; the keyword trigger, the one other
\* caller of stopRecording, does not fire in note mode.
C8_NoteModeNoCall ==
  [][ /\ (StopOnLatchedTranscript /\ noteMode >= 0 /\ Trim(transcriptRef) # Empty)
           => resolveCalls' = resolveCalls
      /\ \A f \in Fragments :
           (recognition # "off" /\ Install(onresult(Cur, f)) /\ noteMode >= 0)
           => resolveCalls' = resolveCalls ]_vars

\* C8 witness: a note was spoken by a session whose closure was in order
\* mode: a line has a note and the session's one resolution sent nothing.
C8_Witness ==
  /\ \E i \in DOMAIN cart : Truthy(cart[i].note)
  /\ sessionNoteMode = -1
  /\ sessResolutions = 1
  /\ resolveCalls = <<>>
  /\ appState = "idle"

\* C9: a resolution of a non-blank transcript in note mode sets the note of
\* line noteMode to the trimmed transcript and changes nothing else of the
\* cart (no line at all when the index is past the cart); noteMode becomes
\* -1 and the phase idle.
C9_NoteOnly ==
  [][ (StopOnLatchedTranscript /\ noteMode >= 0 /\ Trim(transcriptRef) # Empty) =>
        /\ Len(cart') = Len(cart)
        /\ \A i \in DOMAIN cart :
             cart'[i] = IF i = noteMode + 1
                        THEN [cart[i] EXCEPT !.note = <<Trim(transcriptRef)>>]
                        ELSE cart[i]
        /\ noteMode' = -1
        /\ appState' = "idle" ]_vars

\* C9 witness: of two lines the second has the note and the first has none.
C9_Witness ==
  /\ Len(cart) = 2
  /\ ~Truthy(cart[1].note)
  /\ Truthy(cart[2].note)
  /\ noteMode = -1
  /\ appState = "idle"

\* C10: every successful response of the resolve endpoint, to a call of
\* processTranscript or of handleSuggestionClick, appends the returned item to
\* the cart, leaving the lines before it as they were, clears the live
\* transcript and sets the phase to idle.
C10_AppendOnSuccess ==
  [][ \A r \in ResolveResponses :
        (r.kind = "success" /\ ResolveResponse({r}))
        => /\ Len(cart') = Len(cart) + 1
           /\ cart'[Len(cart')] = r.item
           /\ \A k \in DOMAIN cart : cart'[k] = cart[k]
           /\ liveTranscript' = Empty
           /\ appState' = "idle" ]_vars

\* A step that handles a sold-out or no-match answer, or an exception, of
\* the resolve endpoint
ResolveFailure ==
  \E r \in ResolveResponses : r.kind # "success" /\ ResolveResponse({r})

\* A step that handles a non-success answer, or an exception, of the
\* confirm-order endpoint for the call at position i
ConfirmFailure(i) ==
  \E kind \in ConfirmResponses \ {"success"} :
    Install(submitOrderResponse([Cur EXCEPT !.confirmCalls = RemoveAt(@, i),
                                            !.submitBurst = 0], kind))

\* C11 as stated, for a dine-in confirmation, whose call carries the lines
\* of the cart as they were when it was issued: when the confirmation fails
\* the phase becomes error and the cart is what it was when the call was issued.
C11_CartAsAtIssue ==
  [][ \A i \in DOMAIN confirmCalls :
        (ConfirmFailure(i) /\ \A k \in DOMAIN confirmCalls[i].items :
                                confirmCalls[i].items[k].dineOption = "dine-in")
        => /\ appState' = "error"
           /\ [k \in DOMAIN cart' |-> itemToSend(cart'[k], "dine-in")] = confirmCalls[i].items ]_vars

\* C11: the step that handles a failed resolution or a failed confirmation
\* sets the phase to error and leaves the cart as it was just before the
\* step (the changes the user made while the call was in flight are kept).
C11_FailureKeepsCart ==
  [][ (ResolveFailure \/ \E i \in DOMAIN confirmCalls : ConfirmFailure(i))
      => (appState' = "error" /\ cart' = cart) ]_vars

\* C11 witness: a confirmation has failed and the cart still has its line.
C11_Witness ==
  /\ appState = "error"
  /\ errorMessage \in {"saveFailed", "saveUnreachable"}
  /\ cart # <<>>
  /\ ~isSubmittingRef
  /\ confirmCalls = <<>>

\* C12: whenever no call of processTranscript is waiting for its answer,
\* isProcessingTranscriptRef and isProcessingRef are both false: every exit
\* of a resolution (success, empty transcript, note applied, failure
\* response, exception) clears them.
C12_LocksCleared ==
  (\A i \in DOMAIN resolveCalls : resolveCalls[i].src # "processTranscript")
  => (~isProcessingTranscriptRef /\ ~isProcessingRef)

\* C12 witness: a resolution of this session has ended in the catch block.
C12_Witness ==
  /\ sessResolutions >= 1
  /\ resolveCalls = <<>>
  /\ appState = "error"
  /\ errorMessage = "unreachable"
  /\ ~isProcessingTranscriptRef
  /\ ~isProcessingRef

\* Sequences of presses of the plus and minus buttons of one line
QuantityOps ==
  UNION { [1..n -> {"plus", "minus"}] : n \in 0..MaxOps }

\* The state after the presses ops on line index
RECURSIVE afterQuantityOps(_, _, _)
afterQuantityOps(s, index, ops) ==
  IF ops = <<>> THEN s
  ELSE afterQuantityOps(IF Head(ops) = "plus"
                        THEN incrementQuantity(s, index)
                        ELSE decrementQuantity(s, index),
                        index, Tail(ops))

\* The presses ops never delete line index (minus on quantity 1 does)
RECURSIVE keepsLine(_, _, _)
keepsLine(s, index, ops) ==
  \/ ops = <<>>
  \/ /\ Head(ops) = "minus" => s.cart[index + 1].quantity > 1
     /\ keepsLine(afterQuantityOps(s, index, <<Head(ops)>>), index, Tail(ops))

\* C13: from every reachable cart, for every line and add-on of it, two
\* toggles of the add-on with any presses of the line's plus and minus
\* buttons between them (that keep the line) give the line the price it had.
C13_ToggleTwice ==
  \A i \in DOMAIN cart : \A a \in DOMAIN cart[i].add_ons : \A ops \in QuantityOps :
    LET s1 == toggleAddOn(Cur, i - 1, a - 1)
    IN keepsLine(s1, i - 1, ops) =>
         toggleAddOn(afterQuantityOps(s1, i - 1, ops), i - 1, a - 1).cart[i].price = cart[i].price

\* C13 witness: a line with one add-on selected and the other not, of
\* quantity 2, next to a line with nothing selected.
C13_Witness ==
  /\ Len(cart) = 2
  /\ cart[1].menu_name = "A" /\ cart[1].quantity = 2
  /\ ~cart[1].add_ons[1].selected /\ cart[1].add_ons[2].selected
  /\ cart[2].menu_name = "B" /\ ~cart[2].add_ons[1].selected

\* The price the menu gives the item of a line
basePrice(line) ==
  (CHOOSE m \in CartMenuItems : m.menu_name = line.menu_name).price

\* C14: every line of the cart, created with the price of its menu item and
\* nothing selected, has that price plus the prices of its selected add-ons.
C14_PriceFromSelection ==
  \A i \in DOMAIN cart : cart[i].price = basePrice(cart[i]) + selectedSum(cart[i].add_ons)

\* C14 witness: a line has both of its add-ons selected, after a change of quantity.
C14_Witness ==
  \E i \in DOMAIN cart :
    /\ cart[i].quantity = 2
    /\ Len(cart[i].add_ons) = 2
    /\ cart[i].add_ons[1].selected /\ cart[i].add_ons[2].selected
    /\ cart[i].price > basePrice(cart[i])

\* The sum of price times quantity over the lines of a call
RECURSIVE sumOfLines(_)
sumOfLines(items) ==
  IF items = <<>> THEN 0
  ELSE Head(items).price * Head(items).quantity + sumOfLines(Tail(items))

\* The call submitOrder dispatches from the present state for dineOption
dispatched(dineOption) ==
  LET calls == submitOrder(Cur, dineOption).confirmCalls
  IN calls[Len(calls)]

\* A step in which submitOrder gets past its lock and dispatches for dineOption
SubmitStep(dineOption) ==
  /\ ~isSubmittingRef
  /\ Install(submitOrder(Cur, dineOption))

\* C15: the total_price of every confirm-order call is the sum of price
\* times quantity over the lines of that call; and a takeaway and a dine-in
\* submission of the same cart carry the same total and, line by line, the
\* cart's prices and quantities.
C15_TotalOfLinesSent ==
  /\ \A i \in DOMAIN confirmCalls :
       confirmCalls[i].total_price = sumOfLines(confirmCalls[i].items)
  /\ ~isSubmittingRef =>
       /\ dispatched("takeaway").total_price = dispatched("dine-in").total_price
       /\ \A d \in {"takeaway", "dine-in"} :
            /\ Len(dispatched(d).items) = Len(cart)
            /\ dispatched(d).total_price = sumOfLines(dispatched(d).items)
            /\ \A k \in DOMAIN cart :
                 /\ dispatched(d).items[k].price = cart[k].price
                 /\ dispatched(d).items[k].quantity = cart[k].quantity

\* C15 witness: a takeaway call is in flight with two lines of different
\* prices, one of quantity 2.
C15_Witness ==
  /\ Len(confirmCalls) = 1
  /\ Len(confirmCalls[1].items) = 2
  /\ confirmCalls[1].items[1].dineOption = "takeaway"
  /\ confirmCalls[1].items[1].quantity = 2
  /\ confirmCalls[1].items[1].price # confirmCalls[1].items[2].price
  /\ confirmCalls[1].total_price > 0

\* C16: a takeaway submission sends the marker alone for a line with no
\* note or a blank one and otherwise the existing note (the line's note as
\* trim() leaves it) followed by ", " and the marker; a dine-in submission
\* sends the line's note as it is.
C16_TrimmedNoteThenMarker ==
  [][ \A d \in {"takeaway", "dine-in"} : SubmitStep(d) =>
        LET items == confirmCalls'[Len(confirmCalls')].items
        IN /\ Len(items) = Len(cart)
           /\ \A k \in DOMAIN cart :
                items[k].note =
                  IF d = "dine-in" THEN cart[k].note
                  ELSE IF ~Truthy(cart[k].note) \/ Trim(cart[k].note[1]) = Empty
                       THEN <<TAKEAWAY_NOTE>>
                       ELSE <<Trim(cart[k].note[1]) \o <<",", " ">> \o TAKEAWAY_NOTE>> ]_vars

\* C16 witness: a takeaway call is in flight whose first line carries the
\* marker alone and whose second carries a note before the marker.
C16_Witness ==
  /\ Len(confirmCalls) = 1
  /\ Len(confirmCalls[1].items) = 2
  /\ confirmCalls[1].items[1].note = <<TAKEAWAY_NOTE>>
  /\ confirmCalls[1].items[2].note = << <<"x", ",", " ">> \o TAKEAWAY_NOTE >>

\* A step that calls startRecording: the microphone button outside phase
\* recording, or the timeout set by the add-note button
StartRecordingCalled ==
  \/ MicButton /\ appState # "recording"
  \/ NoteStartTimeout

\* C17: a call of startRecording while the phase is recording, or on an
\* origin that is neither HTTPS nor localhost, changes neither the phase,
\* the error message, the suggestions, the transcript, the latch nor the timers.
C17_StartRecordingNoOp ==
  [][ (StartRecordingCalled /\ (appState = "recording" \/ ~secureOrigin)) =>
        /\ appState' = appState
        /\ errorMessage' = errorMessage
        /\ suggestions' = suggestions
        /\ liveTranscript' = liveTranscript
        /\ transcriptRef' = transcriptRef
        /\ hasAutoStoppedRef' = hasAutoStoppedRef
        /\ timerRef' = timerRef
        /\ silenceTimerRef' = silenceTimerRef ]_vars

\* C18: the phase becomes recording only from phase idle or phase error.
C18_RecordingFromIdleOrError ==
  [][ (appState # "recording" /\ appState' = "recording")
      => appState \in {"idle", "error"} ]_vars

\* C19: the phase becomes confirmed only in the step that handles the
\* success response to a confirm-order call, which submitOrder dispatched
\* under the submission lock.
C19_ConfirmedOnlyOnSuccess ==
  [][ (appState # "confirmed" /\ appState' = "confirmed") =>
        /\ isSubmittingRef
        /\ \E i \in DOMAIN confirmCalls :
             Install(submitOrderResponse([Cur EXCEPT !.confirmCalls = RemoveAt(@, i),
                                                     !.submitBurst = 0], "success")) ]_vars

\* C19 witness: the confirmation is shown over the cart that was sent.
C19_Witness ==
  /\ appState = "confirmed"
  /\ revertTimer
  /\ cart # <<>>
  /\ confirmCalls = <<>>

\* C20: whenever the phase is confirmed, the revert timeout expires at last
\* and leaves the phase idle and the cart empty, whatever else is done meanwhile.
C20_RevertAtLast ==
  (appState = "confirmed") ~> (~revertTimer /\ ~isSubmittingRef /\ appState = "idle" /\ cart = <<>>)

\* C20 witness: a new recording runs during the display window.
C20_Witness ==
  /\ revertTimer
  /\ appState = "recording"
  /\ recognition = "running"

\* C21: with every call answered at last, whenever the phase is processing
\* it is idle, error or confirmed at some later time.
C21_ProcessingEnds ==
  (appState = "processing") ~> (appState \in {"idle", "error", "confirmed"})

\* C21 witness: the phase is processing with a resolve call and a
\* confirm-order call both in flight.
C21_Witness ==
  /\ appState = "processing"
  /\ resolveCalls # <<>>
  /\ confirmCalls # <<>>

\* C22: once the component has unmounted the recognizer is no longer
\* running and no timer is pending: not the duration interval, not a silence
\* timeout, not the 3 s revert timeout.
C22_NothingPendingAfterUnmount ==
  ~mounted => /\ recognition # "running"
              /\ ~timerRef
              /\ silenceTimerRef = <<>>
              /\ ~revertTimer

C24_NoKeywordStopInNoteMode ==
  [][ /\ \A f \in Fragments :
           (recognition \in {"running", "stopping"} /\ noteModeRef >= 0
              /\ Install(onresult(Cur, f)))
           => /\ sessStops' = sessStops
              /\ sessAutoStops' = sessAutoStops
              /\ hasAutoStoppedRef' = hasAutoStoppedRef
              /\ appState' = appState
              /\ resolveCalls' = resolveCalls
      /\ (noteModeRef >= 0 /\ sessStops' > sessStops)
           => (MicButton \/ SilenceTimeout) ]_vars

\* C24 witness: in note mode a final fragment holding a menu keyword was
\* received; the session is still recording, unlatched, its timeout armed.
C24_Witness ==
  /\ appState = "recording"
  /\ noteModeRef >= 0
  /\ transcriptRef = <<"k">>
  /\ detectMenuItem(transcriptRef)
  /\ ~hasAutoStoppedRef
  /\ sessStops = 0
  /\ silenceTimerRef # <<>>

\* C25: a step that handles a resolve call that was unreachable or threw
\* leaves noteMode as it was.
C25_NetworkErrorKeepsNoteMode ==
  [][ (\E r \in ResolveResponses : r.kind = "throw" /\ ResolveResponse({r}))
        => noteMode' = noteMode ]_vars

\* C26: every line of the cart has quantity >= 1 in every reachable state,
\* and the minus button pressed on a line of quantity 1 removes that line and
\* leaves the other lines as they were, in their order.
C26_QuantityAtLeastOne ==
  /\ [](\A i \in DOMAIN cart : cart[i].quantity >= 1)
  /\ [][ \A i \in DOMAIN cart :
           (cart[i].quantity = 1 /\ Install(decrementQuantity(Cur, i - 1)))
           => /\ Len(cart') = Len(cart) - 1
              /\ \A j \in DOMAIN cart' :
                   cart'[j] = IF j < i THEN cart[j] ELSE cart[j + 1] ]_vars

\* C26 witness: the first of two different lines has quantity 1, the second
\* quantity 2; the minus button of the first leaves the second alone.
C26_Witness ==
  /\ Len(cart) = 2
  /\ cart[1].quantity = 1
  /\ cart[2].quantity = 2
  /\ cart[1].menu_name # cart[2].menu_name
  /\ decrementQuantity(Cur, 0).cart = <<cart[2]>>

\* C27: in every reachable state noteMode is -1 or the index of a line of
\* the cart.
C27_NoteModeIndexesCart ==
  noteMode = -1 \/ (0 <= noteMode /\ noteMode < Len(cart))

\* The keywords of a keyword list, as a set
keywordsOf(ks) == { ks[k] : k \in DOMAIN ks }

\* The keywords of the active items (of the sold-out items) that occur in
\* the transcript matched
activeHits ==
  { kw \in UNION { keywordsOf(matchCase.MENU_CACHE.items[i]) :
                     i \in DOMAIN matchCase.MENU_CACHE.items } :
      contains(matchCase.transcript, kw) }

inactiveHits ==
  { kw \in UNION { keywordsOf(matchCase.MENU_CACHE.inactive_items[j]) :
                     j \in DOMAIN matchCase.MENU_CACHE.inactive_items } :
      contains(matchCase.transcript, kw) }

\* The active items a keyword of which occurs in the transcript matched
activeItemsHit ==
  { i \in DOMAIN matchCase.MENU_CACHE.items :
      keywordsOf(matchCase.MENU_CACHE.items[i]) \cap activeHits # {} }

\* The sum of the lengths of the keywords of a set
RECURSIVE sumOfLengths(_)
sumOfLengths(S) ==
  IF S = {} THEN 0
  ELSE LET kw == CHOOSE x \in S : TRUE
       IN Len(kw) + sumOfLengths(S \ {kw})

\* C28: when a keyword of a sold-out item that no active item has occurs in
\* the transcript, the result is SoldOut for a sold-out item, whichever
\* keywords of active items occur as well.
C28_SoldOutFirst ==
  (matchCase.result # NoResult
     /\ \E kw \in inactiveHits :
          \A i \in DOMAIN matchCase.MENU_CACHE.items :
            kw \notin keywordsOf(matchCase.MENU_CACHE.items[i]))
  => /\ matchCase.result.kind = "SoldOut"
     /\ matchCase.result.item \in DOMAIN matchCase.MENU_CACHE.inactive_items

\* C28 witness: sold out was answered for a transcript in which a keyword of
\* an active item occurs too, the sold-out keyword being of no active item.
C28_Witness ==
  /\ matchCase.result.kind = "SoldOut"
  /\ activeHits # {}
  /\ inactiveHits \ activeHits # {}

\* C29: when the keywords that occur in the transcript are all of one and
\* the same active item, and of no other item, the result is Matched with
\* that item and the sum of the lengths of its keywords that occur.
C29_OneItemScore ==
  \A i \in DOMAIN matchCase.MENU_CACHE.items :
    (matchCase.result # NoResult
       /\ activeItemsHit = {i}
       /\ inactiveHits = {})
    => matchCase.result =
         [kind |-> "Matched", item |-> i,
          score |-> sumOfLengths(keywordsOf(matchCase.MENU_CACHE.items[i]) \cap activeHits)]

\* C29 witness: the second of two active items was matched on two keywords
\* of lengths 1 and 2, no keyword of the first occurring.
C29_Witness ==
  /\ matchCase.result.kind = "Matched"
  /\ matchCase.result.item = 2
  /\ matchCase.result.score = 3
  /\ activeItemsHit = {2}
  /\ Len(matchCase.MENU_CACHE.items) = 2
  /\ inactiveHits = {}

\* C30: when keywords of two active items occur with different sums of
\* lengths, and no keyword of a sold-out item occurs, the result is Matched
\* with the item of the higher sum.
C30_HigherSumWins ==
  \A i, g \in DOMAIN matchCase.MENU_CACHE.items :
    (matchCase.result # NoResult
       /\ inactiveHits = {}
       /\ {i, g} \subseteq activeItemsHit
       /\ sumOfLengths(keywordsOf(matchCase.MENU_CACHE.items[i]) \cap activeHits)
            > sumOfLengths(keywordsOf(matchCase.MENU_CACHE.items[g]) \cap activeHits))
    => /\ matchCase.result.kind = "Matched"
       /\ matchCase.result.item = i

\* C30 witness: the second active item was matched with sum 3 while a
\* keyword of the first occurs with sum 1, a sold-out item being on the menu.
C30_Witness ==
  /\ matchCase.result.kind = "Matched"
  /\ matchCase.result.item = 2
  /\ matchCase.result.score = 3
  /\ score(matchCase.MENU_CACHE.items[1], matchCase.transcript) = 1
  /\ Len(matchCase.MENU_CACHE.inactive_items) = 1

\* A step in which startRecording is called and gets past its guard on the
\* phase of its closure and past its check of the origin
StartRecordingTakesEffect ==
  /\ secureOrigin
  /\ \/ appState # "recording" /\ MicButton
     \/ /\ noteStartTimer # <<>>
        /\ noteStartTimer[1].appState # "recording"
        /\ NoteStartTimeout

\* C31 as stated: every startRecording that takes effect leaves the live
\* transcript empty, the latch unset and the phase recording.
C31_StartClearsTranscript ==
  [][ StartRecordingTakesEffect =>
        /\ liveTranscript' = Empty
        /\ ~hasAutoStoppedRef'
        /\ appState' = "recording" ]_vars

\* C31: every startRecording that takes effect unsets the latch and sets the
\* phase to recording, so that a final keyword fragment fires the keyword
\* trigger again exactly when noteModeRef < 0; it leaves the live transcript
\* empty, or holding the notice that no live preview is available when the
\* browser gave no recognizer.
C31_StartResetsSession ==
  [][ StartRecordingTakesEffect =>
        /\ liveTranscript' \in {Empty, <<"(unavailable)">>}
        /\ recognition # "running" /\ recognition' = "running" => liveTranscript' = Empty
        /\ ~hasAutoStoppedRef'
        /\ sessAutoStops' = 0
        /\ appState' = "recording"
        /\ keywordTrigger(Cur', <<"k">>) <=> noteModeRef' < 0 ]_vars

\* C31 witness: a session is running, unlatched, with an empty live
\* transcript, after an earlier session's resolution put a line in the cart.
C31_Witness ==
  /\ appState = "recording"
  /\ recognition = "running"
  /\ ~hasAutoStoppedRef
  /\ sessStops = 0
  /\ liveTranscript = Empty
  /\ Len(cart) >= 1

\* A result event on which the keyword trigger fires
KeywordTriggerFires ==
  \E f \in Fragments :
    /\ recognition \in {"running", "stopping"}
    /\ keywordTrigger(Cur, f[1])
    /\ Install(onresult(Cur, f))

\* C32: the step in which the keyword trigger fires leaves no silence timeout
\* pending and the latch set; while the latch is set (until the next
\* startRecording) no silence timeout is pending, so none expires.
C32_KeywordStopCancelsSilence ==
  /\ [](hasAutoStoppedRef => silenceTimerRef = <<>>)
  /\ [][ KeywordTriggerFires => (hasAutoStoppedRef' /\ silenceTimerRef' = <<>>) ]_vars

\* C32 witness: after the automatic stop of the session the stopped
\* recognizer delivered one more fragment with text, and no timeout is armed.
C32_Witness ==
  /\ hasAutoStoppedRef
  /\ sessAutoStops = 1
  /\ recognition = "off"
  /\ appState = "processing"
  /\ liveTranscript = <<"k", " ">>
  /\ silenceTimerRef = <<>>

\* A step in which stopRecording is called and gets past its lock
StopRecordingTakesEffect ==
  /\ ~isProcessingRef
  /\ \/ appState = "recording" /\ MicButton
     \/ ~hasAutoStoppedRef /\ SilenceTimeout
     \/ KeywordTriggerFires

\* C33: a stopRecording that takes effect leaves the recognizer stopped and
\* neither the duration interval nor a silence timeout pending, and while the
\* recognizer it stopped is ending no step other than a startRecording arms
\* either again.
C33_StoppedSessionStaysQuiet ==
  [][ /\ StopRecordingTakesEffect
           => (recognition' # "running" /\ ~timerRef' /\ silenceTimerRef' = <<>>)
      /\ (recognition = "stopping" /\ ~StartRecordingCalled)
           => (~timerRef' /\ silenceTimerRef' = <<>>) ]_vars

\* How often the takeaway marker occurs in a text
RECURSIVE markers(_)
markers(text) ==
  IF text = <<>> THEN 0
  ELSE (IF <<Head(text)>> = TAKEAWAY_NOTE THEN 1 ELSE 0) + markers(Tail(text))

\* C34: no call of submitOrder and no handling of its answer for a failed
\* submission changes the cart; no line of the cart holds the takeaway marker,
\* and every takeaway submission, a retried one too, sends every line with
\* the marker exactly once.
C34_MarkerOnlyOnCopy ==
  /\ [](\A k \in DOMAIN cart : Truthy(cart[k].note) => markers(cart[k].note[1]) = 0)
  /\ [][ /\ \A d \in {"takeaway", "dine-in"} :
              Install(submitOrder(Cur, d)) => cart' = cart
         /\ \A i \in DOMAIN confirmCalls : ConfirmFailure(i) => cart' = cart
         /\ SubmitStep("takeaway") =>
              \A k \in DOMAIN cart :
                markers(confirmCalls'[Len(confirmCalls')].items[k].note[1]) = 1 ]_vars

\* C34 witness: after a submission failed, a takeaway call is in flight for a
\* cart of two lines, one with a note; both lines are sent with one marker
\* and the cart's line still has its note as it was.
C34_Witness ==
  /\ errorMessage \in {"saveFailed", "saveUnreachable"}
  /\ Len(confirmCalls) = 1
  /\ Len(cart) = 2
  /\ \E k \in DOMAIN cart : cart[k].note = << <<" ", "x">> >>
  /\ \A k \in DOMAIN cart :
       /\ confirmCalls[1].items[k].dineOption = "takeaway"
       /\ markers(confirmCalls[1].items[k].note[1]) = 1

\* C35: every step in which an automatic trigger sets the latch calls
\* stopRecording with the lock free, and ends with the phase out of recording.
C35_LatchOnlyWithEffectiveStop ==
  [][ (~hasAutoStoppedRef /\ hasAutoStoppedRef')
        => (~isProcessingRef /\ appState' # "recording") ]_vars

\* C36: a session in which no fragment was received (its live transcript is
\* as startRecording cleared it) and that is stopped by the microphone button
\* or a silence timeout, the locks being free, ends in the 'unheard' error and
\* sends no call.
C36_NoFragmentMeansUnheard ==
  [][ (/\ StopOnLatchedTranscript
       /\ appState = "recording"
       /\ recognition = "running"
       /\ liveTranscript = Empty)
      => /\ appState' = "error"
         /\ errorMessage' = "unheard"
         /\ resolveCalls' = resolveCalls ]_vars

\* C37: when a submission is confirmed every line in the cart is one of the
\* lines that were sent, and from then until the revert timeout has cleared
\* the cart no line is added or changed: the revert discards only lines that
\* were sent.
C37_RevertDiscardsOnlySentLines ==
  [][ /\ \A i \in DOMAIN confirmCalls :
           Install(submitOrderResponse([Cur EXCEPT !.confirmCalls = RemoveAt(@, i),
                                                   !.submitBurst = 0], "success"))
           => \E d \in {"dine-in", "takeaway"} :
                \A k \in DOMAIN cart :
                  \E j \in DOMAIN confirmCalls[i].items :
                    confirmCalls[i].items[j] = itemToSend(cart[k], d)
      /\ (revertTimer /\ revertTimer')
           => \A k \in DOMAIN cart' : \E j \in DOMAIN cart : cart'[k] = cart[j] ]_vars

\* C38: whenever the phase is idle, error or confirmed, no recognizer is
\* running and neither the duration counter nor a silence timer is pending.
C38_QuietOutsideRecording ==
  appState \in {"idle", "error", "confirmed"}
    => /\ recognition # "running"
       /\ ~timerRef
       /\ silenceTimerRef = <<>>

C40_ProcessingHasACall ==
  /\ [](/\ isProcessingTranscriptRef => isProcessingRef
        /\ appState = "processing" => (resolveCalls # <<>> \/ confirmCalls # <<>>))
  /\ [][ StopRecordingTakesEffect
         => /\ sessResolutions' # sessResolutions \/ sessResolutions = CapCount
            /\ \/ appState' \in {"idle", "error"} /\ resolveCalls' = resolveCalls
               \/ /\ appState' = "processing"
                  /\ Len(resolveCalls') = Len(resolveCalls) + 1
                  /\ isProcessingRef' /\ isProcessingTranscriptRef' ]_vars

\* A stopRecording has set phase processing and its resolve call is in flight
C40_Witness ==
  /\ appState = "processing"
  /\ isProcessingRef /\ isProcessingTranscriptRef
  /\ \E i \in DOMAIN resolveCalls : resolveCalls[i].src = "processTranscript"
  /\ confirmCalls = <<>>

====
